---- MODULE Spec2Model ----
(***************************************************************************)
(* Delivery route optimiser (rotas_app/app.py, streamlit_app.py).          *)
(*                                                                         *)
(* Numbers.  The code computes in binary floating point; the model         *)
(* computes the same quantities exactly, as integers over fixed            *)
(* denominators:                                                           *)
(*   distance      metres              (distance_km = metres / 1000)       *)
(*   time          1/TimeScale minute  (TimeScale = 1000 * SPEED_KMH)      *)
(*   cost          1/TimeScale cent                                        *)
(* and the rounded metrics of a route are integers:                        *)
(*   distance      hundredths of a km  (round(x, 2))                       *)
(*   time          minutes             (round(x))                          *)
(*   cost          cents               (round(x, 2))                       *)
(* float('inf') is the value Inf; a finite float x is Fin(x).              *)
(***************************************************************************)
EXTENDS Integers, Sequences, FiniteSets, TLC

VARIABLES
  addresses,        \* the request: list of address labels, origin first
  return_to_start,  \* the request: whether the route ends at the origin
  geocoded,         \* geocoded[i]: what geocode_address gives for addresses[i]
  pc,               \* pc[app]: where optimize_route of entry point app is
  idx,              \* idx[app]: position of the geocoding loop
  coords_map,       \* coords_map[app]: address -> coordinate
  address_data,     \* address_data[app]: rotas_app only
  lookups,          \* lookups[app]: the addresses geocode_address was called with
  cost_calls,       \* cost_calls[app]: calls of calculate_route_cost made
  result,           \* result[app]: what optimize_route returned
  route_coords,     \* a direct call of the cost model: its argument
  leg_info,         \* ... what calculate_distance_time gave for its first leg
  route_info        \* ... what calculate_route_cost gave for it

vars == <<addresses, return_to_start, geocoded, pc, idx, coords_map,
          address_data, lookups, cost_calls, result, route_coords, leg_info,
          route_info>>

(***************************************************************************)
(* Program constants                                                       *)
(***************************************************************************)
SPEED_KMH == 50
MINUTES_PER_HOUR == 60
STOP_MINUTES == 5
COST_PER_KM_CENTS == 50
COST_PER_MINUTE_CENTS == 20
METRES_PER_KM == 1000
MIN_ADDRESSES == 2
MAX_ADDRESSES == 10
TOP_ROUTES == 10

TimeScale == METRES_PER_KM * SPEED_KMH

(***************************************************************************)
(* Python values                                                           *)
(***************************************************************************)
None == <<>>

Inf == [inf |-> TRUE, val |-> 0]
Fin(x) == [inf |-> FALSE, val |-> x]

FAdd(a, b) == IF a.inf \/ b.inf THEN Inf ELSE Fin(a.val + b.val)

\* a * k for a constant k > 0
FScale(a, k) == IF a.inf THEN Inf ELSE Fin(a.val * k)

\* a < b on floats: inf < inf is false
FLess(a, b) == ~a.inf /\ (b.inf \/ a.val < b.val)

\* round(x / q) for integers x >= 0, q > 0: to nearest, a half to the even side
Round(x, q) ==
  LET f == x \div q
      r == x % q
  IN IF 2 * r < q THEN f
     ELSE IF 2 * r > q THEN f + 1
     ELSE IF f % 2 = 0 THEN f ELSE f + 1

SetMin(S) == CHOOSE x \in S : \A y \in S : x <= y

Raise(name) == [exception |-> name]
Raised(v) == "exception" \in DOMAIN v

(***************************************************************************)
(* geopy.distance.geodesic                                                 *)
(*                                                                         *)
(* A coordinate is a pair <<latitude, longitude>>.  The model has three,   *)
(* and the library's distance between them in metres: PointB is exactly    *)
(* 50 km from PointA, PointC is 2.002 km from PointA.                      *)
(***************************************************************************)
PointA == <<0, 0>>
PointB == <<0, 50>>
PointC == <<1, 2>>

Coords == {PointA, PointB, PointC}

geodesic(coord1, coord2) ==
  IF coord1 = coord2 THEN 0
  ELSE IF {coord1, coord2} = {PointA, PointB} THEN 50000
  ELSE IF {coord1, coord2} = {PointA, PointC} THEN 2002
  ELSE 48411

(***************************************************************************)
(* calculate_distance_time, calculate_route_cost                           *)
(***************************************************************************)
\* variant: the per-leg stop overhead left out
distance_time_without_stop(coord1, coord2) ==
  IF coord1 = None \/ coord2 = None THEN <<Inf, Inf>>
  ELSE <<Fin(geodesic(coord1, coord2)), Fin(MINUTES_PER_HOUR * geodesic(coord1, coord2))>>

\* <<distance in metres, time in 1/TimeScale minutes>>
calculate_distance_time(coord1, coord2) ==
  IF coord1 = None \/ coord2 = None THEN <<Inf, Inf>>
  ELSE LET distance_km == geodesic(coord1, coord2)
           time_minutes == MINUTES_PER_HOUR * distance_km + STOP_MINUTES * TimeScale
       IN <<Fin(distance_km), Fin(time_minutes)>>

\* the loop of calculate_route_cost from leg i on: <<total_distance, total_time>>
RECURSIVE SumLegs(_, _, _)
SumLegs(coords, i, totals) ==
  IF i > Len(coords) - 1 THEN totals
  ELSE LET leg == calculate_distance_time(coords[i], coords[i + 1])
       IN SumLegs(coords, i + 1, <<FAdd(totals[1], leg[1]), FAdd(totals[2], leg[2])>>)

calculate_route_cost(coords) ==
  IF Len(coords) < 2 THEN [distance |-> 0, time |-> 0, cost |-> 0]
  ELSE LET totals == SumLegs(coords, 1, <<Fin(0), Fin(0)>>)
           total_distance == totals[1]
           total_time == totals[2]
           cost == FAdd(FScale(total_distance, COST_PER_KM_CENTS * SPEED_KMH),
                        FScale(total_time, COST_PER_MINUTE_CENTS))
       IN \* round(total_time) of an infinite float raises OverflowError
          IF total_time.inf THEN Raise("OverflowError")
          ELSE [distance |-> Round(total_distance.val, 10),
                time |-> Round(total_time.val, TimeScale),
                cost |-> Round(cost.val, TimeScale)]

(***************************************************************************)
(* itertools.permutations, list.sort, list slices                          *)
(***************************************************************************)
RemoveAt(s, i) == SubSeq(s, 1, i - 1) \o SubSeq(s, i + 1, Len(s))

\* list(itertools.permutations(s)): every ordering of the positions of s, in
\* lexicographic order of the positions
RECURSIVE permutations(_)
RECURSIVE PermutationsFrom(_, _)
PermutationsFrom(s, i) ==
  IF i > Len(s) THEN <<>>
  ELSE LET rest == permutations(RemoveAt(s, i))
       IN [k \in 1..Len(rest) |-> <<s[i]>> \o rest[k]] \o PermutationsFrom(s, i + 1)

\* variant: orderings that read the same taken once (the orderings of the values,
\* not of the positions)
permutations_of_values(s) ==
  LET every == IF Len(s) = 0 THEN << <<>> >> ELSE PermutationsFrom(s, 1) \o <<>>
      keep == {k \in 1..Len(every) : \A j \in 1..(k - 1) : every[j] # every[k]}
  IN [i \in 1..Cardinality(keep) |->
        every[CHOOSE k \in keep : Cardinality({j \in keep : j <= k}) = i]] \o <<>>

permutations(s) == IF Len(s) = 0 THEN << <<>> >> ELSE PermutationsFrom(s, 1)

\* variant: sorted the other way round
sort_by_cost_descending(routes) == SortSeq(routes, LAMBDA a, b : a.cost > b.cost)

\* routes.sort(key=lambda x: x['cost']): ascending and stable
sort_by_cost(routes) == SortSeq(routes, LAMBDA a, b : a.cost < b.cost)

\* s[:k]
Slice(s, k) == IF Len(s) <= k THEN s ELSE SubSeq(s, 1, k)

(***************************************************************************)
(* optimize_route                                                          *)
(***************************************************************************)
Apps == {"flask", "streamlit"}

IsError(r) == "error" \in DOMAIN r

\* variant: the ceiling one too low
check_count_below_ceiling(addrs) ==
  IF Len(addrs) < MIN_ADDRESSES
  THEN [error |-> <<"Please provide at least 2 addresses">>]
  ELSE IF Len(addrs) >= MAX_ADDRESSES
  THEN [error |-> <<"Maximum 10 addresses supported for performance reasons">>]
  ELSE None

\* variant: the ceiling not checked
check_count_without_ceiling(addrs) ==
  IF Len(addrs) < MIN_ADDRESSES
  THEN [error |-> <<"Please provide at least 2 addresses">>]
  ELSE None

\* the two checks on len(addresses): the error returned, or None
check_count(addrs) ==
  IF Len(addrs) < MIN_ADDRESSES
  THEN [error |-> <<"Please provide at least 2 addresses">>]
  ELSE IF Len(addrs) > MAX_ADDRESSES
  THEN [error |-> <<"Maximum 10 addresses supported for performance reasons">>]
  ELSE None

\* variant: a missing coordinate let through
never_absent(coord) == FALSE

\* `not coord`: a coordinate is a non-empty tuple, so only None is falsy
not_coord(coord) == coord = None

geocode_error(app, addr) ==
  IF app = "flask" THEN [error |-> <<"Could not geocode address: ", addr>>]
  ELSE [error |-> <<"Could not geocode address: ", addr,
                    ". Verifica se o endereco esta correto ou configura a Google Maps API Key.">>]

\* variant: the return to the origin left out
route_without_return(start_address, perm, rts) == <<start_address>> \o perm

make_route_addresses(start_address, perm, rts) ==
  IF rts THEN <<start_address>> \o perm \o <<start_address>>
  ELSE <<start_address>> \o perm

\* round(distance * 0.621371, 2), distance in hundredths of a km; the product
\* distance * 621371 is kept in two parts, thousands and units
distance_miles(distance) ==
  LET thousands == distance * 621 + (distance * 371) \div 1000
      units == (distance * 371) % 1000
      f == thousands \div 1000
      r == (thousands % 1000) * 1000 + units
  IN IF 2 * r < 1000000 THEN f
     ELSE IF 2 * r > 1000000 THEN f + 1
     ELSE IF f % 2 = 0 THEN f ELSE f + 1

\* variant: the interactive entry point costs the route without its return leg
make_route_data_diverging(app, cmap, start_address, perm, rts) ==
  LET route_addresses == make_route_addresses(start_address, perm, rts)
      coords == [j \in 1..Len(route_addresses) |-> cmap[route_addresses[j]]]
      info == IF app = "flask" THEN calculate_route_cost(coords)
              ELSE calculate_route_cost(SubSeq(coords, 1, Len(perm) + 1))
  IN IF Raised(info) THEN info
     ELSE IF app = "flask"
     THEN [addresses |-> route_addresses, coordinates |-> coords,
           distance |-> info.distance, time |-> info.time, cost |-> info.cost,
           distance_miles |-> distance_miles(info.distance)]
     ELSE [addresses |-> route_addresses, coordinates |-> coords,
           distance |-> info.distance, time |-> info.time, cost |-> info.cost]

\* the route_data of the loop's iteration for perm; an exception of
\* calculate_route_cost is passed on
make_route_data(app, cmap, start_address, perm, rts) ==
  LET route_addresses == make_route_addresses(start_address, perm, rts)
      coords == [j \in 1..Len(route_addresses) |-> cmap[route_addresses[j]]]
      info == calculate_route_cost(coords)
  IN IF Raised(info) THEN info
     ELSE IF app = "flask"
     THEN [addresses |-> route_addresses, coordinates |-> coords,
           distance |-> info.distance, time |-> info.time, cost |-> info.cost,
           distance_miles |-> distance_miles(info.distance)]
     ELSE [addresses |-> route_addresses, coordinates |-> coords,
           distance |-> info.distance, time |-> info.time, cost |-> info.cost]

\* variant: `<=` for `<`, the last of the cheapest kept
select_last_minimum(best, route_data) ==
  IF ~FLess(best.best_cost, Fin(route_data.cost))
  THEN [best_cost |-> Fin(route_data.cost), best_route |-> route_data]
  ELSE best

\* if route_info['cost'] < best_cost: best_cost, best_route = ...
select_best(best, route_data) ==
  IF FLess(Fin(route_data.cost), best.best_cost)
  THEN [best_cost |-> Fin(route_data.cost), best_route |-> route_data]
  ELSE best

\* b, with a evaluated first (TLC evaluates an argument where it is first used)
After(a, b) == IF a = a THEN b ELSE b

\* the selection made by iterations lo..hi of the loop, in order, from best
\* (the range is halved, which keeps the evaluation shallow)
RECURSIVE scan_routes(_, _, _, _)
scan_routes(routes, lo, hi, best) ==
  IF lo > hi THEN best
  ELSE IF lo = hi THEN select_best(best, routes[lo])
  ELSE LET mid == (lo + hi) \div 2
           left == scan_routes(routes, lo, mid, best)
       IN After(left, scan_routes(routes, mid + 1, hi, left))

\* optimize_route from `start_address = addresses[0]` on: what it returns (or
\* raises) and the calls of calculate_route_cost it makes
enumerate_routes(app, addrs, cmap, rts, adata) ==
  LET start_address == addrs[1]
      delivery_addresses == SubSeq(addrs, 2, Len(addrs))
      perms == permutations(delivery_addresses)
      num_permutations == Len(perms)
      all_routes == [k \in 1..num_permutations |->
                       make_route_data(app, cmap, start_address, perms[k], rts)] \o <<>>
      best == scan_routes(all_routes, 1, num_permutations,
                          [best_cost |-> Inf, best_route |-> None])
  IN IF Len(delivery_addresses) = 0
     THEN [returned |-> [error |-> <<"Please provide at least one delivery address">>],
           cost_calls |-> 0]
     ELSE IF \E k \in 1..num_permutations : Raised(all_routes[k])
     THEN [returned |-> Raise("OverflowError"),
           cost_calls |-> SetMin({k \in 1..num_permutations : Raised(all_routes[k])})]
     ELSE IF app = "flask"
     THEN [returned |-> [best_route |-> best.best_route,
                         all_routes |-> Slice(sort_by_cost(all_routes), TOP_ROUTES),
                         total_permutations |-> num_permutations,
                         address_data |-> adata],
           cost_calls |-> num_permutations]
     ELSE [returned |-> [best_route |-> best.best_route],
           cost_calls |-> num_permutations]

(***************************************************************************)
(* Bounds of the model                                                     *)
(***************************************************************************)
\* requests of up to MaxLen addresses are taken with every list of labels and
\* every outcome of the lookups
MaxLen == 3
\* the loop over the permutations is run for up to MaxStops delivery stops
\* (MaxStops! routes); a request with more stops is followed up to the loop
MaxStops == 4
\* direct calls of the cost model take up to MaxCoords coordinates
MaxCoords == 4

(***************************************************************************)
(* The steps of optimize_route                                             *)
(***************************************************************************)
Validate(app) ==
  /\ pc[app] = "start"
  /\ IF check_count(addresses) # None
     THEN /\ result' = [result EXCEPT ![app] = check_count(addresses)]
          /\ pc' = [pc EXCEPT ![app] = "done"]
     ELSE /\ pc' = [pc EXCEPT ![app] = "geocode"]
          /\ UNCHANGED result
  /\ UNCHANGED <<addresses, return_to_start, geocoded, idx, coords_map, address_data,
                 lookups, cost_calls, route_coords, leg_info, route_info>>

\* one iteration of the geocoding loop
Geocode(app) ==
  /\ pc[app] = "geocode"
  /\ LET i == idx[app]
         addr == addresses[i]
         coord == geocoded[i]
     IN /\ lookups' = [lookups EXCEPT ![app] = Append(@, addr)]
        /\ IF not_coord(coord)
           THEN /\ result' = [result EXCEPT ![app] = geocode_error(app, addr)]
                /\ pc' = [pc EXCEPT ![app] = "done"]
                /\ UNCHANGED <<idx, coords_map, address_data>>
           ELSE /\ coords_map' = [coords_map EXCEPT ![app] =
                                    [a \in DOMAIN @ \cup {addr} |-> IF a = addr THEN coord ELSE @[a]]]
                /\ address_data' = [address_data EXCEPT ![app] =
                                      IF app = "flask"
                                      THEN Append(@, [address |-> addr, coordinates |-> coord,
                                                      index |-> i - 1])
                                      ELSE @]
                /\ idx' = [idx EXCEPT ![app] = i + 1]
                /\ pc' = [pc EXCEPT ![app] = IF i = Len(addresses) THEN "enumerate" ELSE "geocode"]
                /\ UNCHANGED result
  /\ UNCHANGED <<addresses, return_to_start, geocoded, cost_calls, route_coords,
                 leg_info, route_info>>

Enumerate(app) ==
  /\ pc[app] = "enumerate"
  /\ Len(addresses) - 1 <= MaxStops
  /\ LET out == enumerate_routes(app, addresses, coords_map[app], return_to_start,
                                 address_data[app])
     IN /\ result' = [result EXCEPT ![app] = out.returned]
        /\ cost_calls' = [cost_calls EXCEPT ![app] = out.cost_calls]
  /\ pc' = [pc EXCEPT ![app] = "done"]
  /\ UNCHANGED <<addresses, return_to_start, geocoded, idx, coords_map, address_data,
                 lookups, route_coords, leg_info, route_info>>

(***************************************************************************)
(* Requests                                                                *)
(***************************************************************************)
\* Address labels are opaque: a list is taken up to renaming, each label at
\* most one above those before it.
IsCanonical(s) ==
  \A i \in 1..Len(s) : \A v \in 1..(s[i] - 1) : \E j \in 1..(i - 1) : s[j] = v

Distinct(n) == [i \in 1..n |-> i]

\* every list, every outcome
ShortRequests ==
  UNION {[addresses : {s \in [1..n -> 1..n] : IsCanonical(s)},
          geocoded : [1..n -> Coords \cup {None}]] : n \in 0..MaxLen}

\* distinct addresses, the origin at PointA, every stop at PointB or PointC
WideRequests ==
  UNION {[addresses : {Distinct(n)},
          geocoded : {g \in [1..n -> Coords] :
                        g[1] = PointA /\ \A i \in 2..n : g[i] # PointA}]
         : n \in (MaxLen + 1)..(MaxStops + 1)}

\* at and above the ceiling: distinct addresses, every lookup answered or one not
LongRequests ==
  UNION {[addresses : {Distinct(n)},
          geocoded : {[i \in 1..n |-> IF i = k THEN None
                                      ELSE IF i % 2 = 1 THEN PointA ELSE PointC]
                      : k \in 0..n}]
         : n \in {MAX_ADDRESSES, MAX_ADDRESSES + 1}}

Requests == ShortRequests \cup WideRequests \cup LongRequests

NoCostCall ==
  /\ route_coords = <<>>
  /\ leg_info = None
  /\ route_info = None

Init ==
  /\ \E r \in Requests :
       /\ addresses = r.addresses
       /\ geocoded = r.geocoded
  /\ return_to_start \in BOOLEAN
  /\ pc = [app \in Apps |-> "start"]
  /\ idx = [app \in Apps |-> 1]
  /\ coords_map = [app \in Apps |-> <<>>]
  /\ address_data = [app \in Apps |-> <<>>]
  /\ lookups = [app \in Apps |-> <<>>]
  /\ cost_calls = [app \in Apps |-> 0]
  /\ result = [app \in Apps |-> None]
  /\ NoCostCall

Next == \E app \in Apps : Validate(app) \/ Geocode(app) \/ Enumerate(app)

Spec == Init /\ [][Next]_vars

(***************************************************************************)
(* Direct calls of the cost model                                          *)
(***************************************************************************)
RECURSIVE SeqsUpTo(_, _)
SeqsUpTo(S, n) ==
  IF n = 0 THEN {<<>>}
  ELSE SeqsUpTo(S, n - 1) \cup {Append(s, x) : s \in SeqsUpTo(S, n - 1), x \in S}

NoRequest ==
  /\ addresses = <<>>
  /\ geocoded = <<>>
  /\ return_to_start = FALSE
  /\ pc = [app \in Apps |-> "done"]
  /\ idx = [app \in Apps |-> 1]
  /\ coords_map = [app \in Apps |-> <<>>]
  /\ address_data = [app \in Apps |-> <<>>]
  /\ lookups = [app \in Apps |-> <<>>]
  /\ cost_calls = [app \in Apps |-> 0]
  /\ result = [app \in Apps |-> None]

InitCost ==
  /\ route_coords \in SeqsUpTo(Coords \cup {None}, MaxCoords)
  /\ leg_info = None
  /\ route_info = None
  /\ NoRequest

\* calculate_distance_time(route_coords[0], route_coords[1])
CostLeg ==
  /\ leg_info = None
  /\ Len(route_coords) >= 2
  /\ leg_info' = calculate_distance_time(route_coords[1], route_coords[2])
  /\ UNCHANGED <<addresses, return_to_start, geocoded, pc, idx, coords_map, address_data,
                 lookups, cost_calls, result, route_coords, route_info>>

\* calculate_route_cost(route_coords)
CostRoute ==
  /\ route_info = None
  /\ route_info' = calculate_route_cost(route_coords)
  /\ UNCHANGED <<addresses, return_to_start, geocoded, pc, idx, coords_map, address_data,
                 lookups, cost_calls, result, route_coords, leg_info>>

NextCost == CostLeg \/ CostRoute

SpecCost == InitCost /\ [][NextCost]_vars

(***************************************************************************)
(* What the claims speak of                                                *)
(***************************************************************************)
RECURSIVE Factorial(_)
Factorial(n) == IF n <= 1 THEN 1 ELSE n * Factorial(n - 1)

\* the orderings of a list in generation order, numbered 0 .. n!-1: the first
\* element of ordering k is the (k \div (n-1)!)-th, the rest is ordering
\* k % (n-1)! of what is left
RECURSIVE OrderingAt(_, _)
OrderingAt(s, k) ==
  IF Len(s) = 0 THEN <<>>
  ELSE LET f == Factorial(Len(s) - 1)
           i == (k \div f) + 1
       IN <<s[i]>> \o OrderingAt(SubSeq(s, 1, i - 1) \o SubSeq(s, i + 1, Len(s)), k % f)

AsList(f) == f \o <<>>

Stops == Len(addresses) - 1
Origin == addresses[1]
Deliveries == SubSeq(addresses, 2, Len(addresses))
Resolved == \A i \in 1..Len(addresses) : geocoded[i] # None
CountOk == Len(addresses) >= 2 /\ Len(addresses) <= 10
Done(app) == pc[app] = "done"
Succeeded(app) == Done(app) /\ "best_route" \in DOMAIN result[app]

TooFew == [error |-> <<"Please provide at least 2 addresses">>]
TooMany == [error |-> <<"Maximum 10 addresses supported for performance reasons">>]
Unresolved(app, addr) ==
  IF app = "flask" THEN [error |-> <<"Could not geocode address: ", addr>>]
  ELSE [error |-> <<"Could not geocode address: ", addr,
                    ". Verifica se o endereco esta correto ou configura a Google Maps API Key.">>]
FirstUnresolved == SetMin({i \in 1..Len(addresses) : geocoded[i] = None})

\* candidate k (1 .. n!) in generation order
CandidateAddresses(k) ==
  <<Origin>> \o OrderingAt(Deliveries, k - 1) \o (IF return_to_start THEN <<Origin>> ELSE <<>>)
CandidateCoords(app, k) ==
  LET route == CandidateAddresses(k)
  IN AsList([j \in 1..Len(route) |-> coords_map[app][route[j]]])
CandidateCosts(app) ==
  AsList([k \in 1..Factorial(Stops) |-> calculate_route_cost(CandidateCoords(app, k)).cost])

IsCandidate(route, app, k) ==
  LET info == calculate_route_cost(CandidateCoords(app, k))
  IN /\ route.addresses = CandidateAddresses(k)
     /\ route.coordinates = CandidateCoords(app, k)
     /\ route.distance = info.distance
     /\ route.time = info.time
     /\ route.cost = info.cost

Count(s, x) == Cardinality({i \in 1..Len(s) : s[i] = x})

(***************************************************************************)
(* C1.  The best route returned has the least cost of the n! candidates,   *)
(* and among the candidates of that cost it is the one generated first.    *)
(***************************************************************************)
BestIsFirstMinimum ==
  \A app \in Apps :
    Succeeded(app) =>
      LET costs == CandidateCosts(app)
          least == SetMin({costs[k] : k \in 1..Len(costs)})
          first == SetMin({k \in 1..Len(costs) : costs[k] = least})
      IN /\ result[app].best_route # None
         /\ result[app].best_route.cost = least
         /\ IsCandidate(result[app].best_route, app, first)

\* two stops, both orders of the same cost, the first order returned
WitnessTieBreak ==
  /\ Stops = 2
  /\ addresses[2] # addresses[3]
  /\ Succeeded("flask")
  /\ CandidateCosts("flask")[1] = CandidateCosts("flask")[2]
  /\ result["flask"].best_route.addresses = CandidateAddresses(1)
  /\ CandidateAddresses(1) # CandidateAddresses(2)

(***************************************************************************)
(* C2.  A request of n stops has n! candidate routes costed, one for each  *)
(* ordering of the stops, and total_permutations is n!; with one stop the  *)
(* one candidate is the best route.                                        *)
(***************************************************************************)
EvaluatesFactorial ==
  /\ \A app \in Apps : Succeeded(app) => cost_calls[app] = Factorial(Stops)
  /\ Succeeded("flask") =>
       LET r == result["flask"]
       IN /\ r.total_permutations = Factorial(Stops)
          /\ Factorial(Stops) <= 10 =>
               /\ Len(r.all_routes) = Factorial(Stops)
               /\ \A k \in 1..Factorial(Stops) :
                    \E i \in 1..Len(r.all_routes) : IsCandidate(r.all_routes[i], "flask", k)
               /\ (\A i, j \in 1..Len(addresses) : i # j => addresses[i] # addresses[j]) =>
                    Cardinality({r.all_routes[i].addresses : i \in 1..Len(r.all_routes)})
                      = Factorial(Stops)
          /\ Stops = 1 =>
               /\ r.total_permutations = 1
               /\ r.all_routes = <<r.best_route>>
               /\ IsCandidate(r.best_route, "flask", 1)

WitnessSixOrderings ==
  /\ Stops = 3
  /\ Succeeded("flask")
  /\ result["flask"].total_permutations = 6
  /\ Cardinality({result["flask"].all_routes[i].addresses : i \in 1..6}) = 6

(***************************************************************************)
(* C3.  all_routes is the first min(n!, 10) candidates in ascending order  *)
(* of cost, candidates of equal cost in generation order; its first cost   *)
(* is the best route's.                                                    *)
(***************************************************************************)
\* the m least elements of a set of numbers, ascending
RECURSIVE Least(_, _)
Least(S, m) ==
  IF m = 0 \/ S = {} THEN <<>>
  ELSE <<SetMin(S)>> \o Least(S \ {SetMin(S)}, m - 1)

AlternativesAreTopTen ==
  Succeeded("flask") =>
    LET r == result["flask"]
        costs == CandidateCosts("flask")
        total == Len(costs)
        \* (cost, k) in one number: ascending cost, then generation order
        order == Least({costs[k] * (total + 1) + k : k \in 1..total}, 10)
    IN /\ Len(r.all_routes) = IF total < 10 THEN total ELSE 10
       /\ Len(order) = Len(r.all_routes)
       /\ \A i \in 1..Len(r.all_routes) :
            IsCandidate(r.all_routes[i], "flask", order[i] % (total + 1))
       /\ \A i \in 1..(Len(r.all_routes) - 1) : r.all_routes[i].cost <= r.all_routes[i + 1].cost
       /\ r.all_routes[1].cost = r.best_route.cost

\* more than ten candidates, two of the ten returned of equal cost
WitnessTruncated ==
  /\ Succeeded("flask")
  /\ result["flask"].total_permutations > 10
  /\ Len(result["flask"].all_routes) = 10
  /\ \E i \in 1..9 :
       /\ result["flask"].all_routes[i].cost = result["flask"].all_routes[i + 1].cost
       /\ result["flask"].all_routes[i].addresses # result["flask"].all_routes[i + 1].addresses
  /\ result["flask"].all_routes[1].cost < result["flask"].all_routes[10].cost

(***************************************************************************)
(* C4.  Every route returned starts at the origin, ends there when         *)
(* returning, has n+1 (n+2 when returning) addresses and has every         *)
(* delivery stop as often as the request has it.                           *)
(***************************************************************************)
WellFormedRoute(route) ==
  /\ Len(route.addresses) = Stops + (IF return_to_start THEN 2 ELSE 1)
  /\ Len(route.coordinates) = Len(route.addresses)
  /\ route.addresses[1] = Origin
  /\ return_to_start => route.addresses[Len(route.addresses)] = Origin
  /\ LET visited == SubSeq(route.addresses, 2, Stops + 1)
     IN \A i \in 1..Len(addresses) : Count(visited, addresses[i]) = Count(Deliveries, addresses[i])

RoutesWellFormed ==
  \A app \in Apps :
    Succeeded(app) =>
      /\ WellFormedRoute(result[app].best_route)
      /\ app = "flask" =>
           \A i \in 1..Len(result[app].all_routes) : WellFormedRoute(result[app].all_routes[i])

WitnessBothShapes ==
  /\ Stops = 3
  /\ Succeeded("flask") /\ Succeeded("streamlit")
  /\ Len(result["flask"].all_routes) = 6
  /\ Len(result["streamlit"].best_route.addresses) = 5
  /\ return_to_start

(***************************************************************************)
(* C5.  Ten addresses (nine stops) pass the count check and, resolved,     *)
(* never end in an error; eleven or more end in the too-many error, fewer  *)
(* than two in the too-few error, both without a best route.               *)
(***************************************************************************)
CountCheck ==
  \A app \in Apps :
    /\ (Done(app) /\ Len(addresses) < 2) => result[app] = TooFew
    /\ (Done(app) /\ Len(addresses) > 10) => result[app] = TooMany
    /\ (CountOk /\ Resolved) => (result[app] = None \/ Succeeded(app))
    /\ (CountOk /\ Resolved /\ Done(app)) => result[app].best_route # None
    /\ ~CountOk => pc[app] \in {"start", "done"}

\* ten addresses, all resolved: both entry points have passed the check and
\* made their ten lookups
WitnessTenAccepted ==
  /\ Len(addresses) = 10
  /\ Resolved
  /\ \A app \in Apps :
       /\ pc[app] = "enumerate"
       /\ lookups[app] = addresses
       /\ result[app] = None

(***************************************************************************)
(* C6 as stated.  A request with an address whose coordinate is absent     *)
(* ends in the unresolved-address error.                                   *)
(***************************************************************************)
AbsentAlwaysUnresolvedError ==
  \A app \in Apps :
    (Done(app) /\ ~Resolved) => result[app] = Unresolved(app, addresses[FirstUnresolved])

(***************************************************************************)
(* C6 amended.  A request of 2 to 10 addresses with an address whose       *)
(* coordinate is absent ends in the unresolved-address error for the first *)
(* such address: no route is costed, none is returned.                     *)
(***************************************************************************)
AbsentCoordinateRefused ==
  \A app \in Apps :
    (CountOk /\ ~Resolved) =>
      /\ pc[app] # "enumerate"
      /\ cost_calls[app] = 0
      /\ Done(app) =>
           /\ result[app] = Unresolved(app, addresses[FirstUnresolved])
           /\ DOMAIN result[app] = {"error"}

WitnessRefused ==
  /\ CountOk
  /\ Len(addresses) = 3
  /\ geocoded[1] # None /\ geocoded[2] # None /\ geocoded[3] = None
  /\ \A app \in Apps : Done(app) /\ IsError(result[app]) /\ cost_calls[app] = 0

(***************************************************************************)
(* C7 as stated.  With an absent coordinate calculate_distance_time gives  *)
(* (inf, inf), and calculate_route_cost gives metrics for a sequence with  *)
(* such a leg rather than raising.                                         *)
(***************************************************************************)
AbsentLegIsCostable ==
  /\ (leg_info # None /\ (route_coords[1] = None \/ route_coords[2] = None))
       => leg_info = <<Inf, Inf>>
  /\ (route_info # None /\ Len(route_coords) >= 2
        /\ \E i \in 1..Len(route_coords) : route_coords[i] = None)
       => ~Raised(route_info)

(***************************************************************************)
(* C8.  For k >= 1 legs of total distance D: distance is D to the nearest  *)
(* 0.01 km, time is D/50*60 + 5k to the nearest minute, cost is            *)
(* 0.50*D + 0.20*(D/50*60 + 5k) to the nearest 0.01; 50 km one way gives   *)
(* 50.00, 65, 38.00, there and back 100.00, 130, 76.00; fewer than two     *)
(* coordinates give zeros.                                                 *)
(***************************************************************************)
RECURSIVE TotalMetres(_)
TotalMetres(coords) ==
  IF Len(coords) < 2 THEN 0
  ELSE geodesic(coords[1], coords[2]) + TotalMetres(Tail(coords))

Near(x, y, half) == x - y <= half /\ y - x <= half

MetricsFromSums ==
  route_info # None =>
    /\ Len(route_coords) < 2 => route_info = [distance |-> 0, time |-> 0, cost |-> 0]
    /\ (Len(route_coords) >= 2 /\ \A i \in 1..Len(route_coords) : route_coords[i] # None) =>
         LET D == TotalMetres(route_coords)
             k == Len(route_coords) - 1
         IN /\ DOMAIN route_info = {"distance", "time", "cost"}
            \* distance in 0.01 km against D in metres
            /\ Near(10 * route_info.distance, D, 5)
            \* minutes * 50000 against (D/1000/50*60 + 5k) * 50000
            /\ Near(50000 * route_info.time, 60 * D + 250000 * k, 25000)
            \* cents * 50000 against 100 * (0.50*D/1000 + 0.20*(D/1000/50*60 + 5k)) * 50000
            /\ Near(50000 * route_info.cost, 2500 * D + 20 * (60 * D + 250000 * k), 25000)
    /\ route_coords = <<PointA, PointB>> =>
         route_info = [distance |-> 5000, time |-> 65, cost |-> 3800]
    /\ route_coords = <<PointA, PointB, PointA>> =>
         route_info = [distance |-> 10000, time |-> 130, cost |-> 7600]

\* 50 km there and back, costed
WitnessThereAndBack ==
  /\ route_coords = <<PointA, PointB, PointA>>
  /\ route_info # None
  /\ route_info.time = 130

(***************************************************************************)
(* C9.  On the same request and the same lookups the two entry points      *)
(* both return an error, or both return a best route with the same         *)
(* addresses, coordinates, distance, time and cost.                        *)
(***************************************************************************)
EntryPointsAgree ==
  (Done("flask") /\ Done("streamlit")) =>
    /\ IsError(result["flask"]) <=> IsError(result["streamlit"])
    /\ ~IsError(result["flask"]) =>
         /\ Succeeded("flask") /\ Succeeded("streamlit")
         /\ \A f \in {"addresses", "coordinates", "distance", "time", "cost"} :
              result["flask"].best_route[f] = result["streamlit"].best_route[f]

WitnessBothReturned ==
  /\ Succeeded("flask") /\ Succeeded("streamlit")
  /\ Stops = 2
  /\ CandidateCosts("flask")[1] > CandidateCosts("flask")[2]
  /\ result["streamlit"].best_route.addresses = CandidateAddresses(2)

(***************************************************************************)
(* C10.  A request of fewer than 2 or more than 10 addresses is answered   *)
(* without a lookup.  Otherwise the lookups are of the addresses in input  *)
(* order; a lookup without a coordinate is the last one and its address is *)
(* named in the error; the loop is entered with every address resolved and *)
(* the 'at least one delivery address' error is never returned.            *)
(***************************************************************************)
LookupOrder ==
  \A app \in Apps :
    LET made == Len(lookups[app])
    IN /\ ~CountOk => made = 0
       /\ made <= Len(addresses)
       /\ lookups[app] = SubSeq(addresses, 1, made)
       /\ \A j \in 1..(made - 1) : geocoded[j] # None
       /\ (made >= 1 /\ geocoded[made] = None) =>
            /\ Done(app)
            /\ result[app] = Unresolved(app, addresses[made])
       /\ (pc[app] = "enumerate" \/ cost_calls[app] > 0 \/ Succeeded(app)) =>
            /\ made = Len(addresses)
            /\ Resolved
            /\ DOMAIN coords_map[app] = {addresses[i] : i \in 1..Len(addresses)}
       /\ result[app] # [error |-> <<"Please provide at least one delivery address">>]
       /\ (Done(app) /\ CountOk /\ IsError(result[app])) => geocoded[made] = None

\* the second of three lookups fails: two made, the third never
WitnessStoppedAtSecond ==
  /\ Len(addresses) = 3
  /\ geocoded[2] = None /\ geocoded[3] # None
  /\ Done("flask")
  /\ lookups["flask"] = SubSeq(addresses, 1, 2)
  /\ result["flask"] = Unresolved("flask", addresses[2])

====
